---- MODULE Spec2Model ----
(***************************************************************************)
(* Model of scripts/iterm2-bridge.py: the newline-delimited JSON protocol  *)
(* loop (ITerm2Bridge.run and the --standalone loop), the command router   *)
(* (handle_command and the _open/_close/_send/_read/_list/_detect/_badge   *)
(* handlers) with the session registry, and the pure text functions        *)
(* strip_ansi and detect_state.                                            *)
(*                                                                         *)
(* Texts are TLA+ strings.  Characters a TLA+ string cannot hold are       *)
(* written with stand-ins that occur nowhere else in the modelled texts:   *)
(* ESC (\x1B) is "^", BEL (\x07) is "!", and the braille spinner glyphs    *)
(* of STATE_PATTERNS['working'] are "*".  Python's None is None.           *)
(***************************************************************************)
EXTENDS Integers, Sequences, FiniteSets, TLC

VARIABLES
    pc,        \* where the process is: "start", "running", "standalone", "raised", "terminated", "exited"
    sessions,  \* ITerm2Bridge.sessions: the keys of the dict, in insertion order
    live,      \* driver side: sessions the bridge had the driver create and that still exist
    issued,    \* per session id: what the responses told the caller ("never", "open", "closed")
    last,      \* the last step of the process: the line read, the driver calls made, the lines written
    mode,      \* "standalone" when --standalone is in sys.argv, else "iterm2"
    text,      \* text functions: the input text
    applied,   \* text functions: how many times the function was applied
    res1,      \* text functions: result of the first application
    res2,      \* text functions: result of the second application
    lineno,    \* run() step by step: how many lines readline() has returned
    running,   \* run() step by step: per line number, the handler in flight for that line
    events     \* run() step by step: what happened so far, in order

vars == <<pc, sessions, live, issued, last, mode, text, applied, res1, res2,
          lineno, running, events>>

bridgeVars == <<pc, sessions, live, issued, last, mode>>
textVars == <<text, applied, res1, res2>>
stepVars == <<lineno, running, events>>

-----------------------------------------------------------------------------
(* Characters and small helpers *)

None == "<None>"
ESC == "^"
BEL == "!"
Spinner == {"*"}

Ch(s, i) == IF i >= 1 /\ i <= Len(s) THEN SubSeq(s, i, i) ELSE None
CharsOf(s) == {SubSeq(s, i, i) : i \in 1..Len(s)}
Digits == CharsOf("0123456789")
UpperAlpha == "ABCDEFGHIJKLMNOPQRSTUVWXYZ"
LowerAlpha == "abcdefghijklmnopqrstuvwxyz"
Letters == CharsOf(UpperAlpha) \cup CharsOf(LowerAlpha)
Whitespace == {" ", "\t", "\n", "\r", "\f"}

MinOf(S) == CHOOSE m \in S : \A n \in S : m <= n
MaxOf(S) == CHOOSE m \in S : \A n \in S : m >= n

\* s[i:i+len(lit)] == lit
LitAt(s, i, lit) == i + Len(lit) - 1 <= Len(s) /\ SubSeq(s, i, i + Len(lit) - 1) = lit

-----------------------------------------------------------------------------
(* ANSI_RE = \x1B(?:\[[0-9;]*[A-Za-z]|\].*?(?:\x07|\x1B\\)|\([A-Z0-9])     *)
(* Each operator gives the index of the last character of the match that   *)
(* starts with the ESC at index i, or 0 when that alternative fails.       *)

\* \[[0-9;]*[A-Za-z] : the parameter run is greedy and disjoint from the final letter
CsiEnd(s, i) ==
    IF Ch(s, i + 1) # "[" THEN 0
    ELSE LET stop == MinOf({j \in (i + 2)..(Len(s) + 1) : Ch(s, j) \notin (Digits \cup {";"})})
         IN IF Ch(s, stop) \in Letters THEN stop ELSE 0

\* \].*?(?:\x07|\x1B\\) : lazy, '.' does not match a newline
OscEnd(s, i) ==
    IF Ch(s, i + 1) # "]" THEN 0
    ELSE LET IsTerm(j) == Ch(s, j) = BEL \/ (Ch(s, j) = ESC /\ Ch(s, j + 1) = "\\")
             T == {j \in (i + 2)..Len(s) :
                      /\ IsTerm(j)
                      /\ \A k \in (i + 2)..(j - 1) : Ch(s, k) # "\n"}
         IN IF T = {} THEN 0
            ELSE LET j == MinOf(T) IN IF Ch(s, j) = BEL THEN j ELSE j + 1

\* \([A-Z0-9]
CharsetEnd(s, i) ==
    IF Ch(s, i + 1) = "(" /\ Ch(s, i + 2) \in (CharsOf(UpperAlpha) \cup Digits)
    THEN i + 2 ELSE 0

AnsiMatchEnd(s, i) ==
    IF Ch(s, i) # ESC THEN 0
    ELSE IF CsiEnd(s, i) > 0 THEN CsiEnd(s, i)
    ELSE IF OscEnd(s, i) > 0 THEN OscEnd(s, i)
    ELSE CharsetEnd(s, i)

\* ANSI_RE.sub('', s) from index i on: leftmost matches, non-overlapping, one pass
RECURSIVE AnsiSub(_, _)
AnsiSub(s, i) ==
    IF i > Len(s) THEN ""
    ELSE LET e == AnsiMatchEnd(s, i)
         IN IF e > 0 THEN AnsiSub(s, e + 1)
            ELSE SubSeq(s, i, i) \o AnsiSub(s, i + 1)

strip_ansi(t) == IF t = None \/ t = "" THEN "" ELSE AnsiSub(t, 1)

-----------------------------------------------------------------------------
(* STATE_PATTERNS: for each state, the text its pattern matches when the   *)
(* match starts at index i of s, or None.  Alternatives are tried in the   *)
(* order they are written, as re does.                                     *)

RECURSIVE FirstAltAt(_, _, _)
FirstAltAt(s, i, alts) ==
    IF alts = <<>> THEN None
    ELSE IF LitAt(s, i, Head(alts)) THEN Head(alts)
    ELSE FirstAltAt(s, i, Tail(alts))

\* Error:|FATAL|panic|Traceback|ENOENT|EACCES
ErrorAt(s, i) == FirstAltAt(s, i, <<"Error:", "FATAL", "panic", "Traceback", "ENOENT", "EACCES">>)

\* CHECKPOINT SAVED|Context pressure: [89]\d%|Context pressure: 100%
CheckpointAt(s, i) ==
    IF LitAt(s, i, "CHECKPOINT SAVED") THEN "CHECKPOINT SAVED"
    ELSE IF /\ LitAt(s, i, "Context pressure: ")
            /\ Ch(s, i + 18) \in {"8", "9"}
            /\ Ch(s, i + 19) \in Digits
            /\ Ch(s, i + 20) = "%"
         THEN SubSeq(s, i, i + 20)
    ELSE IF LitAt(s, i, "Context pressure: 100%") THEN "Context pressure: 100%"
    ELSE None

\* Waiting for plan approval|Approve this plan\?
PlanApprovalAt(s, i) == FirstAltAt(s, i, <<"Waiting for plan approval", "Approve this plan?">>)

\* All plan steps complete|Task complete
CompleteAt(s, i) == FirstAltAt(s, i, <<"All plan steps complete", "Task complete">>)

\* re.IGNORECASE on the modelled (ASCII) characters
LowerCh(c) ==
    IF c \in CharsOf(UpperAlpha)
    THEN Ch(LowerAlpha, CHOOSE k \in 1..26 : Ch(UpperAlpha, k) = c)
    ELSE c

RECURSIVE LowerStr(_)
LowerStr(s) == IF s = "" THEN "" ELSE LowerCh(Head(s)) \o LowerStr(Tail(s))

\* index of the last character of the whitespace run that starts at index i (i - 1 when empty)
WsRunEnd(s, i) == MinOf({j \in i..(Len(s) + 1) : Ch(s, j) \notin Whitespace}) - 1

\* \?\s+(?:yes|no|approve|reject), re.IGNORECASE: \s+ is greedy, no alternative starts with whitespace
WaitingInputAt(s, i) ==
    IF Ch(s, i) # "?" THEN None
    ELSE LET e == WsRunEnd(s, i + 1)
             w == FirstAltAt(LowerStr(s), e + 1, <<"yes", "no", "approve", "reject">>)
         IN IF e >= i + 1 /\ w # None THEN SubSeq(s, i, e + Len(w)) ELSE None

\* [spinner glyphs]|Running|Executing
WorkingAt(s, i) ==
    IF Ch(s, i) \in Spinner THEN Ch(s, i)
    ELSE FirstAltAt(s, i, <<"Running", "Executing">>)

\* ^>\s*$ with re.MULTILINE: ^ after a newline or at the start, $ before a newline or
\* at the end; \s* is greedy and gives back until $ matches
IdleAt(s, i) ==
    IF ~(Ch(s, i) = ">" /\ (i = 1 \/ Ch(s, i - 1) = "\n")) THEN None
    ELSE LET E == {j \in i..WsRunEnd(s, i + 1) : j = Len(s) \/ Ch(s, j + 1) = "\n"}
         IN IF E = {} THEN None ELSE SubSeq(s, i, MaxOf(E))

\* mutant: idle is tried first
STATE_PRIORITY_IdleFirst == <<"idle", "error", "checkpoint", "plan_approval", "complete",
                              "waiting_input", "working">>

STATE_PRIORITY == <<"error", "checkpoint", "plan_approval", "complete",
                    "waiting_input", "working", "idle">>

STATE_PATTERNS(name, s, i) ==
    CASE name = "error" -> ErrorAt(s, i)
      [] name = "checkpoint" -> CheckpointAt(s, i)
      [] name = "plan_approval" -> PlanApprovalAt(s, i)
      [] name = "complete" -> CompleteAt(s, i)
      [] name = "waiting_input" -> WaitingInputAt(s, i)
      [] name = "working" -> WorkingAt(s, i)
      [] name = "idle" -> IdleAt(s, i)

\* pattern.search(s): the match at the leftmost index where the pattern matches, or None
search(name, s) ==
    LET I == {i \in 1..Len(s) : STATE_PATTERNS(name, s, i) # None}
    IN IF I = {} THEN None ELSE STATE_PATTERNS(name, s, MinOf(I))

RECURSIVE DetectFrom(_, _)
DetectFrom(clean, k) ==
    IF k > Len(STATE_PRIORITY) THEN [state |-> "unknown", match |-> None]
    ELSE LET m == search(STATE_PRIORITY[k], clean)
         IN IF m # None THEN [state |-> STATE_PRIORITY[k], match |-> m]
            ELSE DetectFrom(clean, k + 1)

detect_state(t) ==
    IF t = None \/ t = "" THEN [state |-> "unknown", match |-> None]
    ELSE DetectFrom(strip_ansi(t), 1)

-----------------------------------------------------------------------------
(* Inputs of the text functions *)

MaxStripLen == 6
MaxChunks == 3

RECURSIVE StringsOfLen(_, _)
StringsOfLen(A, n) ==
    IF n = 0 THEN {""} ELSE {s \o c : s \in StringsOfLen(A, n - 1), c \in A}

TextsUpTo(A, n) == UNION {StringsOfLen(A, k) : k \in 0..n}

\* characters that ANSI_RE distinguishes: ESC, the three introducers, a parameter
\* character, a final letter and the OSC terminator
StripAlphabet == {ESC, "[", "]", "(", "0", "m", BEL}

\* one trigger per state, a newline, a CSI sequence and a filler
DetectChunks == {"Error:", "CHECKPOINT SAVED", "Approve this plan?", "Task complete",
                 "? YES", "Running", ">", "\n", "^[1m", "x"}

TextOff == /\ text = None /\ applied = 0 /\ res1 = None /\ res2 = None

StepsOff == /\ lineno = 0 /\ running = <<>> /\ events = <<>>

BridgeOff == /\ pc = "off" /\ sessions = <<>> /\ live = {} /\ issued = <<>> /\ last = <<>>
             /\ mode = "off"

(* strip_ansi applied to a text, and then to its own result.  The text is  *)
(* absent (None) or built one character at a time.                         *)
InitStrip == /\ BridgeOff /\ StepsOff
             /\ text \in {"", None}
             /\ applied = 0 /\ res1 = None /\ res2 = None

ExtendText == /\ applied = 0
              /\ text # None
              /\ Len(text) < MaxStripLen
              /\ \E c \in StripAlphabet : text' = text \o c
              /\ UNCHANGED <<applied, res1, res2, bridgeVars, stepVars>>

StripOnce == /\ applied = 0
             /\ res1' = strip_ansi(text)
             /\ applied' = 1
             /\ UNCHANGED <<text, res2, bridgeVars, stepVars>>

StripTwice == /\ applied = 1
              /\ res2' = strip_ansi(res1)
              /\ applied' = 2
              /\ UNCHANGED <<text, res1, bridgeVars, stepVars>>

NextStrip == ExtendText \/ StripOnce \/ StripTwice

SpecStrip == InitStrip /\ [][NextStrip]_vars

(* detect_state applied to a text *)
InitDetect == /\ BridgeOff /\ StepsOff
              /\ text \in TextsUpTo(DetectChunks, MaxChunks) \cup {None}
              /\ applied = 0 /\ res1 = None /\ res2 = None

Classify == /\ applied = 0
            /\ res1' = detect_state(text)
            /\ applied' = 1
            /\ UNCHANGED <<text, res2, bridgeVars, stepVars>>

NextDetect == Classify

SpecDetect == InitDetect /\ [][NextDetect]_vars

-----------------------------------------------------------------------------
(* JSON values, requests and input lines *)

MaxSessions == 2

\* the identifiers the driver hands out (session.session_id)
SessionIds == {"s" \o ToString(k) : k \in 1..MaxSessions}

Empty == [k \in {} |-> 0]

\* dict.get(key, default)
Get(cmd, key, default) == IF key \in DOMAIN cmd THEN cmd[key] ELSE default

\* the same request with an id
Tagged(c) == c @@ ("id" :> "r1")

TerminalIdOpts == {Empty} \cup {("terminalId" :> sid) : sid \in SessionIds}

TargetOpts == {Empty, ("target" :> "window"), ("target" :> "tab"), ("target" :> "split")}

\* an open request with every optional field
OpenFields ==
    ("title" :> "T") @@ ("cwd" :> "/w") @@ ("env" :> <<<<"K", "v">>>>)
    @@ ("command" :> "run") @@ ("badge" :> "B") @@ ("direction" :> "horizontal")

OpenCmds ==
    {("action" :> "open") @@ t : t \in TargetOpts}
    \cup {("action" :> "open") @@ t @@ OpenFields : t \in {Empty, ("target" :> "tab")}}
    \cup {Tagged(("action" :> "open") @@ ("title" :> "T"))}

CloseCmds ==
    {("action" :> "close") @@ t : t \in TerminalIdOpts}
    \cup {Tagged(("action" :> "close") @@ ("terminalId" :> "s1"))}
SendCmds ==
    {("action" :> "send") @@ t @@ ("command" :> "ls") : t \in TerminalIdOpts}
    \cup {Tagged(("action" :> "send") @@ ("terminalId" :> "s1"))}
ReadCmds ==
    {("action" :> "read") @@ t @@ n @@ r :
        t \in TerminalIdOpts,
        n \in {Empty, ("lines" :> 2)},
        r \in {Empty, ("raw" :> TRUE)}}
    \cup {Tagged(("action" :> "read") @@ ("terminalId" :> "s1"))}
ListCmds == {("action" :> "list"), Tagged(("action" :> "list"))}
DetectCmds ==
    {("action" :> "detect") @@ t @@ n :
        t \in TerminalIdOpts, n \in {Empty, ("lines" :> 1)}}
    \cup {Tagged(("action" :> "detect") @@ ("terminalId" :> "s1"))}
BadgeCmds ==
    {("action" :> "badge") @@ t @@ ("text" :> "B") : t \in TerminalIdOpts}
    \cup {Tagged(("action" :> "badge") @@ ("terminalId" :> "s1"))}
PingCmds == {("action" :> "ping"), Tagged(("action" :> "ping"))}
OtherCmds == {("action" :> "bogus"), Tagged(("action" :> "bogus")), Empty}
DetectTextCmds ==
    {("action" :> "detect_text") @@ t :
        t \in {Empty, ("text" :> "Error: FATAL crash"), ("text" :> "^[2K>  \n"),
               ("text" :> "compiling")}}
    \cup {Tagged(("action" :> "detect_text") @@ ("text" :> "Error: FATAL crash"))}

\* an input line: raw text that is no JSON document, or the serialization of a JSON value
NoValue == [type |-> "none", obj |-> Empty]
TextLine(t) == [kind |-> "text", text |-> t, value |-> NoValue]
JsonLine(v) == [kind |-> "json", text |-> None, value |-> v]
Object(cmd) == [type |-> "object", obj |-> cmd]
NonObjects == {[type |-> "array", obj |-> Empty], [type |-> "null", obj |-> Empty]}
NoLine == [kind |-> "none", text |-> None, value |-> NoValue]

BlankTexts == {"", "  \t"}
BadTexts == {"not json"}
BlankLines == {TextLine(t) : t \in BlankTexts}
BadLines == {TextLine(t) : t \in BadTexts}
NonObjectLines == {JsonLine(v) : v \in NonObjects}
CmdLines(C) == {JsonLine(Object(c)) : c \in C}

\* str.strip() of a line of raw text
RECURSIVE LStrip(_)
LStrip(t) == IF t # "" /\ Head(t) \in Whitespace THEN LStrip(Tail(t)) ELSE t
RECURSIVE RStrip(_)
RStrip(t) ==
    IF t # "" /\ Ch(t, Len(t)) \in Whitespace THEN RStrip(SubSeq(t, 1, Len(t) - 1)) ELSE t
strip(t) == RStrip(LStrip(t))

\* `if not line: continue` after line.strip()
IsBlank(line) == line.kind = "text" /\ strip(line.text) = ""

\* json.loads(line): the value, or JSONDecodeError with its message
json_loads(line) ==
    IF line.kind = "json" THEN [raised |-> FALSE, value |-> line.value, msg |-> None]
    ELSE [raised |-> TRUE, value |-> NoValue,
          msg |-> "Expecting value: line 1 column 1 (char 0)"]

\* str(e) of the AttributeError that cmd.get raises when cmd is no dict
AttributeErrorMsg(value) ==
    (IF value.type = "array" THEN "'list'" ELSE "'NoneType'") \o " object has no attribute 'get'"

\* result['id'] = req_id
SetId(resp, id) == [k \in DOMAIN resp \cup {"id"} |-> IF k = "id" THEN id ELSE resp[k]]

-----------------------------------------------------------------------------
(* The registry (ITerm2Bridge.sessions, an insertion-ordered dict keyed by  *)
(* session_id; the value stored under a key is the handle of that session) *)

Keys(d) == {d[i] : i \in 1..Len(d)}
\* self.sessions[sid] = session
DictSet(d, k) == IF k \in Keys(d) THEN d ELSE Append(d, k)
\* mutant: deleting one key empties the registry
DictDel_All(d, k) == <<>>
\* del self.sessions[terminal_id]
DictDel(d, k) == SelectSeq(d, LAMBDA x : x # k)
\* mutant: the lookup hands back a handle for any key
DictGet_NoCheck(d, k) == k
\* self.sessions.get(terminal_id)
DictGet(d, k) == IF k \in Keys(d) THEN k ELSE None

-----------------------------------------------------------------------------
(* The terminal driver (the iterm2 package), as the handlers use it         *)

\* messages of the failures the driver raises
RpcError == "RPC failed"
ClosedError == "SESSION_NOT_FOUND"
FailureMsg(outcome) == IF outcome = "closed" THEN ClosedError ELSE RpcError

\* what a call on session sid can do: a session that is gone fails every call
CallOutcomes(sid, lv) == IF sid \in lv THEN {"ok", "rpc"} ELSE {"closed"}

\* contents of a session's buffer, lines from the top
Screens == {<<>>,
            <<">", "^[32mRunning^[0m", "Task complete">>,
            <<"x", "Error: boom", "> ", "">>}

MinInt(a, b) == IF a < b THEN a ELSE b

\* session.async_get_contents(first_line, number_of_lines)
async_get_contents(screen, first_line, number_of_lines) ==
    SubSeq(screen, first_line + 1, MinInt(first_line + number_of_lines, Len(screen)))

\* '\n'.join(lines)
RECURSIVE Join(_)
Join(lines) ==
    IF lines = <<>> THEN ""
    ELSE IF Len(lines) = 1 THEN lines[1]
    ELSE lines[1] \o "\n" \o Join(Tail(lines))

\* a driver call: the operation, the session it is made on (or creates), its
\* argument, and "ok" or the failure it raised
Call(op, sid, arg, outcome) == [op |-> op, sid |-> sid, arg |-> arg, outcome |-> outcome]

\* what a handler did: its return value or the exception it raised, the registry
\* and the driver's sessions afterwards, and the driver calls it made
Returned(resp, reg, lv, calls) ==
    [raised |-> FALSE, ret |-> resp, msg |-> None, sessions |-> reg, live |-> lv, calls |-> calls]
Raised(msg, reg, lv, calls) ==
    [raised |-> TRUE, ret |-> Empty, msg |-> msg, sessions |-> reg, live |-> lv, calls |-> calls]

\* mutant: the refusal carries no error field
NotFound_NoError(terminal_id) == [ok |-> FALSE]

NotFound(terminal_id) == [ok |-> FALSE, error |-> "Session not found: " \o terminal_id]

-----------------------------------------------------------------------------
(* The handlers.  Each takes the request, the registry and the driver's    *)
(* sessions, and the outcomes of the driver calls it makes.                *)

\* str(e) of the UnboundLocalError raised when `session` is read before it is assigned
UnboundSession == "cannot access local variable 'session' where it is not associated with a value"

\* the session-acquisition calls of _open; the last one creates a window, tab or pane
OpenAcquire(target, window) ==
    IF target = "tab"
    THEN <<"async_get_app", IF window THEN "async_create_tab" ELSE "Window.async_create">>
    ELSE IF target = "split"
    THEN <<"async_get_app", IF window THEN "async_split_pane" ELSE "Window.async_create">>
    ELSE <<"Window.async_create">>

\* whether the local variable `session` is assigned after acquisition
SessionBound(target, window) == ~(target = "tab" /\ ~window)

\* the texts _open sends for the env map, in the map's order
RECURSIVE EnvTexts(_)
EnvTexts(env) ==
    IF env = <<>> THEN <<>>
    ELSE <<"export " \o env[1][1] \o "=\"" \o env[1][2] \o "\"\n">> \o EnvTexts(Tail(env))

\* the set-up calls of _open on the acquired session: <<operation, argument>>
OpenSetup(cmd) ==
    LET command == Get(cmd, "command", "")
        title == Get(cmd, "title", "")
        cwd == Get(cmd, "cwd", "")
        env == Get(cmd, "env", <<>>)
        badge == Get(cmd, "badge", "")
        sends == (IF cwd # "" THEN <<"cd " \o cwd \o "\n">> ELSE <<>>)
                 \o EnvTexts(env)
                 \o (IF title # "" THEN <<"printf '\\e]1;" \o title \o "\\a'\n">> ELSE <<>>)
                 \o (IF command # "" THEN <<command \o "\n">> ELSE <<>>)
    IN [i \in 1..Len(sends) |-> <<"async_send_text", sends[i]>>]
       \o (IF badge # "" THEN <<<<"async_set_variable", badge>>>> ELSE <<>>)

\* mutant: open registers the session as soon as it is created, before the set-up calls
_open_RegistersEarly(cmd, reg, lv, window, failAt, newId) ==
    LET title == Get(cmd, "title", "")
        target == Get(cmd, "target", "window")
        acquire == OpenAcquire(target, window)
        setup == OpenSetup(cmd)
        n == Len(acquire) + Len(setup)
        made == IF failAt = 0 \/ failAt > n THEN n ELSE failAt
        calls == [i \in 1..made |->
                    LET outcome == IF i = failAt THEN "rpc" ELSE "ok"
                    IN IF i < Len(acquire) THEN Call(acquire[i], "", "", outcome)
                       ELSE IF i = Len(acquire) THEN Call(acquire[i], newId, "", outcome)
                       ELSE Call(setup[i - Len(acquire)][1], newId,
                                 setup[i - Len(acquire)][2], outcome)]
        created == failAt = 0 \/ failAt > Len(acquire)
        lv2 == IF created THEN lv \cup {newId} ELSE lv
        reg2 == IF created THEN DictSet(reg, newId) ELSE reg
    IN IF failAt # 0 /\ failAt <= n THEN Raised(RpcError, reg2, lv2, calls)
       ELSE Returned([ok |-> TRUE, terminalId |-> newId,
                      title |-> IF title # "" THEN title ELSE newId],
                     reg2, lv2, calls)

\* window: app.current_terminal_window is not None; failAt: the index of the driver
\* call that raises (0: none does); newId: the session_id of the session created
_open(cmd, reg, lv, window, failAt, newId) ==
    LET title == Get(cmd, "title", "")
        target == Get(cmd, "target", "window")
        acquire == OpenAcquire(target, window)
        bound == SessionBound(target, window)
        setup == IF bound THEN OpenSetup(cmd) ELSE <<>>
        n == Len(acquire) + Len(setup)
        made == IF failAt = 0 THEN n ELSE failAt
        calls == [i \in 1..made |->
                    LET outcome == IF i = failAt THEN "rpc" ELSE "ok"
                    IN IF i < Len(acquire) THEN Call(acquire[i], "", "", outcome)
                       ELSE IF i = Len(acquire) THEN Call(acquire[i], newId, "", outcome)
                       ELSE Call(setup[i - Len(acquire)][1], newId,
                                 setup[i - Len(acquire)][2], outcome)]
        created == failAt = 0 \/ failAt > Len(acquire)
        lv2 == IF created THEN lv \cup {newId} ELSE lv
        sid == newId
    IN IF failAt # 0 THEN Raised(RpcError, reg, lv2, calls)
       ELSE IF ~bound THEN Raised(UnboundSession, reg, lv2, calls)
       ELSE Returned([ok |-> TRUE, terminalId |-> sid,
                      title |-> IF title # "" THEN title ELSE sid],
                     DictSet(reg, sid), lv2, calls)

\* the number of driver calls _open makes when none fails
OpenCallCount(cmd, window) ==
    LET target == Get(cmd, "target", "window")
    IN Len(OpenAcquire(target, window))
       + (IF SessionBound(target, window) THEN Len(OpenSetup(cmd)) ELSE 0)

\* mutant: close without its try/except around async_close
_close_Propagates(cmd, reg, lv, outcome) ==
    LET terminal_id == Get(cmd, "terminalId", "")
        session == DictGet(reg, terminal_id)
        calls == <<Call("async_close", session, "", outcome)>>
    IN IF session = None THEN Returned(NotFound(terminal_id), reg, lv, <<>>)
       ELSE IF outcome # "ok" THEN Raised(FailureMsg(outcome), reg, lv, calls)
       ELSE Returned([ok |-> TRUE], DictDel(reg, terminal_id), lv \ {session}, calls)

\* mutant: close forgets to delete the registry entry
_close_KeepsEntry(cmd, reg, lv, outcome) ==
    LET terminal_id == Get(cmd, "terminalId", "")
        session == DictGet(reg, terminal_id)
    IN IF session = None THEN Returned(NotFound(terminal_id), reg, lv, <<>>)
       ELSE Returned([ok |-> TRUE], reg,
                     IF outcome = "ok" THEN lv \ {session} ELSE lv,
                     <<Call("async_close", session, "", outcome)>>)

\* outcome: what session.async_close() does ("ok", or the failure it raises)
_close(cmd, reg, lv, outcome) ==
    LET terminal_id == Get(cmd, "terminalId", "")
        session == DictGet(reg, terminal_id)
    IN IF session = None THEN Returned(NotFound(terminal_id), reg, lv, <<>>)
       ELSE Returned([ok |-> TRUE], DictDel(reg, terminal_id),
                     IF outcome = "ok" THEN lv \ {session} ELSE lv,
                     <<Call("async_close", session, "", outcome)>>)

_send(cmd, reg, lv, outcome) ==
    LET terminal_id == Get(cmd, "terminalId", "")
        command == Get(cmd, "command", "")
        session == DictGet(reg, terminal_id)
        calls == <<Call("async_send_text", session, command \o "\n", outcome)>>
    IN IF session = None THEN Returned(NotFound(terminal_id), reg, lv, <<>>)
       ELSE IF outcome # "ok" THEN Raised(FailureMsg(outcome), reg, lv, calls)
       ELSE Returned([ok |-> TRUE], reg, lv, calls)

\* screen: the buffer of the session when async_get_contents is called
_read(cmd, reg, lv, outcome, screen) ==
    LET terminal_id == Get(cmd, "terminalId", "")
        lines == Get(cmd, "lines", 50)
        raw == Get(cmd, "raw", FALSE)
        session == DictGet(reg, terminal_id)
        calls == <<Call("async_get_contents", session, "", outcome)>>
        contents == async_get_contents(screen, 0, lines)
        output == Join(contents)
    IN IF session = None THEN Returned(NotFound(terminal_id), reg, lv, <<>>)
       ELSE IF outcome # "ok" THEN Raised(FailureMsg(outcome), reg, lv, calls)
       ELSE Returned([ok |-> TRUE, output |-> IF ~raw THEN strip_ansi(output) ELSE output],
                     reg, lv, calls)

\* mutant: a session whose name fetch fails is left out of the list
_list_DropsDead(cmd, reg, lv, names) ==
    LET alive == SelectSeq(reg, LAMBDA sid : names[sid][1] = "ok")
    IN Returned([ok |-> TRUE,
                 sessions |-> [i \in 1..Len(alive) |->
                                 [terminalId |-> alive[i],
                                  title |-> IF names[alive[i]][2] # "" THEN names[alive[i]][2]
                                            ELSE alive[i],
                                  alive |-> TRUE]]],
                reg, lv,
                [i \in 1..Len(reg) |->
                    Call("async_get_variable", reg[i], "session.name", names[reg[i]][1])])

\* names: for each key of the registry, what async_get_variable('session.name') does:
\* <<"ok", name>> or <<failure, "">>
_list(cmd, reg, lv, names) ==
    LET Entry(sid) ==
            IF names[sid][1] = "ok"
            THEN [terminalId |-> sid,
                  title |-> IF names[sid][2] # "" THEN names[sid][2] ELSE sid,
                  alive |-> TRUE]
            ELSE [terminalId |-> sid, title |-> sid, alive |-> FALSE]
    IN Returned([ok |-> TRUE, sessions |-> [i \in 1..Len(reg) |-> Entry(reg[i])]],
                reg, lv,
                [i \in 1..Len(reg) |->
                    Call("async_get_variable", reg[i], "session.name", names[reg[i]][1])])

_detect(cmd, reg, lv, outcome, screen) ==
    LET terminal_id == Get(cmd, "terminalId", "")
        lines == Get(cmd, "lines", 20)
        session == DictGet(reg, terminal_id)
        calls == <<Call("async_get_contents", session, "", outcome)>>
        state_info == detect_state(Join(async_get_contents(screen, 0, lines)))
    IN IF session = None THEN Returned(NotFound(terminal_id), reg, lv, <<>>)
       ELSE IF outcome # "ok" THEN Raised(FailureMsg(outcome), reg, lv, calls)
       ELSE Returned([ok |-> TRUE, state |-> state_info.state, match |-> state_info.match],
                     reg, lv, calls)

_badge(cmd, reg, lv, outcome) ==
    LET terminal_id == Get(cmd, "terminalId", "")
        badge_text == Get(cmd, "text", "")
        session == DictGet(reg, terminal_id)
        calls == <<Call("async_set_variable", session, badge_text, outcome)>>
    IN IF session = None THEN Returned(NotFound(terminal_id), reg, lv, <<>>)
       ELSE IF outcome # "ok" THEN Raised(FailureMsg(outcome), reg, lv, calls)
       ELSE Returned([ok |-> TRUE], reg, lv, calls)

_ping(cmd, reg, lv) == Returned([ok |-> TRUE, pong |-> TRUE], reg, lv, <<>>)

_unknown(cmd, reg, lv) ==
    Returned([ok |-> FALSE, error |-> "Unknown action: " \o Get(cmd, "action", "")],
             reg, lv, <<>>)

\* the branch of handle_command's if/elif chain that an action takes
KnownActions == {"open", "close", "send", "read", "list", "detect", "badge", "ping"}
Route(cmd) ==
    IF Get(cmd, "action", "") \in KnownActions THEN Get(cmd, "action", "") ELSE "unknown"

\* mutant: no try/except, the handler's exception leaves handle_command
handle_command_NoCatch(cmd, h) == h

\* handle_command's try/except around the handler h it routed to
handle_command(cmd, h) ==
    IF h.raised
    THEN Returned([ok |-> FALSE, error |-> h.msg], h.sessions, h.live, h.calls)
    ELSE h

-----------------------------------------------------------------------------
(* The process: __main__, ITerm2Bridge.run and the --standalone loop        *)

\* one step of the process: the line it read, the registry and what the caller had
\* been told before it, the driver calls it made, the buffer a contents call saw, the exception left uncaught, and
\* the lines it wrote to stdout
Step(kind, line, before, calls, screen, exc, out) ==
    [step |-> kind, line |-> line, before |-> before, told |-> issued, calls |-> calls,
     screen |-> screen, exc |-> exc, out |-> out]

Wrote(kind, out) == Step(kind, NoLine, sessions, <<>>, <<>>, None, out)

\* the command of a line that holds a JSON object
CmdOf(line) == line.value.obj

RunLines ==
    CmdLines(OpenCmds \cup CloseCmds \cup SendCmds \cup ReadCmds \cup ListCmds
             \cup DetectCmds \cup BadgeCmds \cup PingCmds \cup OtherCmds)

StandaloneLines ==
    BlankLines \cup BadLines \cup NonObjectLines
    \cup CmdLines(PingCmds \cup DetectTextCmds \cup ListCmds \cup OtherCmds)

FreshIds == SessionIds \ (live \cup Keys(sessions))

\* what the caller has been told about each session id
NoteIssued(cmd, resp) ==
    IF Route(cmd) = "open" /\ resp.ok THEN [issued EXCEPT ![resp.terminalId] = "open"]
    ELSE IF Route(cmd) = "close" /\ resp.ok
    THEN [issued EXCEPT ![Get(cmd, "terminalId", "")] = "closed"]
    ELSE issued

Init == /\ pc = "start"
        /\ mode \in {"iterm2", "standalone"}
        /\ sessions = <<>>
        /\ live = {}
        /\ issued = [sid \in SessionIds |-> "never"]
        /\ last = [step |-> "none", line |-> NoLine, before |-> <<>>,
                   told |-> [sid \in SessionIds |-> "never"], calls |-> <<>>,
                   screen |-> <<>>, exc |-> None, out |-> <<>>]
        /\ TextOff /\ StepsOff

\* --standalone: the readiness line of the standalone loop
StartStandalone ==
    /\ pc = "start" /\ mode = "standalone"
    /\ pc' = "standalone"
    /\ last' = Wrote("start", <<[ok |-> TRUE, ready |-> TRUE, mode |-> "standalone"]>>)
    /\ UNCHANGED <<sessions, live, issued, mode, textVars, stepVars>>

\* import iterm2 fails
StartImportError ==
    /\ pc = "start" /\ mode = "iterm2"
    /\ pc' = "exited"
    /\ last' = Wrote("start", <<[ok |-> FALSE,
                 error |-> "iterm2 package not installed. Run: pip3 install iterm2"]>>)
    /\ UNCHANGED <<sessions, live, issued, mode, textVars, stepVars>>

\* iterm2.run_until_complete raises before main runs
StartConnectFail ==
    /\ pc = "start" /\ mode = "iterm2"
    /\ pc' = "exited"
    /\ last' = Wrote("start", <<[ok |-> FALSE,
                 error |-> "Failed to connect to iTerm2: " \o RpcError]>>)
    /\ UNCHANGED <<sessions, live, issued, mode, textVars, stepVars>>

\* run(): the readiness line
StartRun ==
    /\ pc = "start" /\ mode = "iterm2"
    /\ pc' = "running"
    /\ last' = Wrote("start", <<[ok |-> TRUE, ready |-> TRUE]>>)
    /\ UNCHANGED <<sessions, live, issued, mode, textVars, stepVars>>

\* run(): a line that is empty after strip()
RunBlank ==
    /\ pc = "running"
    /\ \E line \in BlankLines :
          /\ IsBlank(line)
          /\ last' = Step("line", line, sessions, <<>>, <<>>, None, <<>>)
    /\ UNCHANGED <<pc, sessions, live, issued, mode, textVars, stepVars>>

\* run(): json.loads raises JSONDecodeError
RunInvalid ==
    /\ pc = "running"
    /\ \E line \in BadLines :
          /\ ~IsBlank(line) /\ json_loads(line).raised
          /\ last' = Step("line", line, sessions, <<>>, <<>>, None,
                          <<[ok |-> FALSE,
                             error |-> "Invalid JSON: " \o json_loads(line).msg,
                             id |-> ""]>>)
    /\ UNCHANGED <<pc, sessions, live, issued, mode, textVars, stepVars>>

\* run(): the line is JSON but no object, so cmd.get raises AttributeError, which
\* nothing in run() catches
RunNonObject ==
    /\ pc = "running"
    /\ \E line \in NonObjectLines :
          /\ ~json_loads(line).raised /\ json_loads(line).value.type # "object"
          /\ last' = Step("line", line, sessions, <<>>, <<>>,
                          AttributeErrorMsg(json_loads(line).value), <<>>)
    /\ pc' = "raised"
    /\ UNCHANGED <<sessions, live, issued, mode, textVars, stepVars>>

\* run(): req_id = cmd.get('id', ''); result = await self.handle_command(cmd);
\* result['id'] = req_id; print(json.dumps(result)).  h0 is what the handler did.
Answer(line, screen, h0) ==
    LET cmd == CmdOf(line)
        h == handle_command(cmd, h0)
        resp == SetId(h.ret, Get(cmd, "id", ""))
    IN /\ sessions' = h.sessions
       /\ live' = h.live
       /\ IF h.raised
          THEN /\ pc' = "raised"
               /\ issued' = issued
               /\ last' = Step("line", line, sessions, h.calls, screen, h.msg, <<>>)
          ELSE /\ pc' = "running"
               /\ issued' = NoteIssued(cmd, resp)
               /\ last' = Step("line", line, sessions, h.calls, screen, None, <<resp>>)
       /\ UNCHANGED <<mode, textVars, stepVars>>

RunOpen ==
    /\ pc = "running"
    /\ \E line \in RunLines, window \in BOOLEAN, newId \in FreshIds :
          /\ Route(CmdOf(line)) = "open"
          /\ \E failAt \in 0..OpenCallCount(CmdOf(line), window) :
                Answer(line, <<>>, _open(CmdOf(line), sessions, live, window, failAt, newId))

RunClose ==
    /\ pc = "running"
    /\ \E line \in RunLines :
          /\ Route(CmdOf(line)) = "close"
          /\ \E outcome \in CallOutcomes(Get(CmdOf(line), "terminalId", ""), live) :
                Answer(line, <<>>, _close(CmdOf(line), sessions, live, outcome))

RunSend ==
    /\ pc = "running"
    /\ \E line \in RunLines :
          /\ Route(CmdOf(line)) = "send"
          /\ \E outcome \in CallOutcomes(Get(CmdOf(line), "terminalId", ""), live) :
                Answer(line, <<>>, _send(CmdOf(line), sessions, live, outcome))

\* the buffers a contents call of this request can see (none when no call succeeds)
ScreensFor(cmd, outcome) ==
    IF Get(cmd, "terminalId", "") \in Keys(sessions) /\ outcome = "ok" THEN Screens ELSE {<<>>}

RunRead ==
    /\ pc = "running"
    /\ \E line \in RunLines :
          /\ Route(CmdOf(line)) = "read"
          /\ \E outcome \in CallOutcomes(Get(CmdOf(line), "terminalId", ""), live) :
                \E screen \in ScreensFor(CmdOf(line), outcome) :
                   Answer(line, screen, _read(CmdOf(line), sessions, live, outcome, screen))

\* what async_get_variable('session.name') can do for session sid
NameOutcomes(sid) ==
    IF sid \in live THEN {<<"ok", "zsh">>, <<"ok", "">>, <<"rpc", "">>} ELSE {<<"closed", "">>}

RunList ==
    /\ pc = "running"
    /\ \E line \in RunLines :
          /\ Route(CmdOf(line)) = "list"
          /\ \E names \in [Keys(sessions) -> UNION {NameOutcomes(sid) : sid \in SessionIds}] :
                /\ \A sid \in Keys(sessions) : names[sid] \in NameOutcomes(sid)
                /\ Answer(line, <<>>, _list(CmdOf(line), sessions, live, names))

RunDetect ==
    /\ pc = "running"
    /\ \E line \in RunLines :
          /\ Route(CmdOf(line)) = "detect"
          /\ \E outcome \in CallOutcomes(Get(CmdOf(line), "terminalId", ""), live) :
                \E screen \in ScreensFor(CmdOf(line), outcome) :
                   Answer(line, screen, _detect(CmdOf(line), sessions, live, outcome, screen))

RunBadge ==
    /\ pc = "running"
    /\ \E line \in RunLines :
          /\ Route(CmdOf(line)) = "badge"
          /\ \E outcome \in CallOutcomes(Get(CmdOf(line), "terminalId", ""), live) :
                Answer(line, <<>>, _badge(CmdOf(line), sessions, live, outcome))

RunPing ==
    /\ pc = "running"
    /\ \E line \in RunLines :
          /\ Route(CmdOf(line)) = "ping"
          /\ Answer(line, <<>>, _ping(CmdOf(line), sessions, live))

RunUnknown ==
    /\ pc = "running"
    /\ \E line \in RunLines :
          /\ Route(CmdOf(line)) = "unknown"
          /\ Answer(line, <<>>, _unknown(CmdOf(line), sessions, live))

\* the body of the --standalone loop for one line
StandaloneResponse(line) ==
    LET cmd == CmdOf(line)
        req_id == Get(cmd, "id", "")
        action == Get(cmd, "action", "")
        result == detect_state(Get(cmd, "text", ""))
    IN IF json_loads(line).raised THEN <<[ok |-> FALSE, error |-> json_loads(line).msg]>>
       ELSE IF action = "ping" THEN <<[id |-> req_id, ok |-> TRUE, pong |-> TRUE]>>
       ELSE IF action = "detect_text"
       THEN <<[id |-> req_id, ok |-> TRUE, state |-> result.state, match |-> result.match]>>
       ELSE <<[id |-> req_id, ok |-> FALSE,
               error |-> "Standalone mode: only ping and detect_text supported"]>>

StandaloneLine ==
    /\ pc = "standalone"
    /\ \E line \in StandaloneLines :
          IF IsBlank(line)
          THEN /\ last' = Step("line", line, sessions, <<>>, <<>>, None, <<>>)
               /\ pc' = pc
          ELSE IF ~json_loads(line).raised /\ json_loads(line).value.type # "object"
          THEN /\ last' = Step("line", line, sessions, <<>>, <<>>,
                               AttributeErrorMsg(json_loads(line).value), <<>>)
               /\ pc' = "raised"
          ELSE /\ last' = Step("line", line, sessions, <<>>, <<>>, None,
                               StandaloneResponse(line))
               /\ pc' = pc
    /\ UNCHANGED <<sessions, live, issued, mode, textVars, stepVars>>

\* readline() returns b'' / sys.stdin is exhausted: the loop ends
EndOfInput ==
    /\ pc \in {"running", "standalone"}
    /\ pc' = "terminated"
    /\ last' = Wrote("eof", <<>>)
    /\ UNCHANGED <<sessions, live, issued, mode, textVars, stepVars>>

\* an exception left run() or the standalone loop and the interpreter (or the
\* driver's event loop) ends the process without another line on stdout
UncaughtExit ==
    /\ pc = "raised"
    /\ pc' = "exited"
    /\ last' = Wrote("exit", <<>>)
    /\ UNCHANGED <<sessions, live, issued, mode, textVars, stepVars>>

\* the exception reaches `except Exception as e` around iterm2.run_until_complete
MainExcept ==
    /\ pc = "raised" /\ mode = "iterm2"
    /\ pc' = "exited"
    /\ last' = Wrote("exit", <<[ok |-> FALSE,
                 error |-> "Failed to connect to iTerm2: " \o last.exc]>>)
    /\ UNCHANGED <<sessions, live, issued, mode, textVars, stepVars>>

\* outside the process: the user closes a session the bridge created
UserClosesSession ==
    /\ pc = "running"
    /\ \E sid \in live : live' = live \ {sid}
    /\ UNCHANGED <<pc, sessions, issued, last, mode, textVars, stepVars>>

Next ==
    \/ StartStandalone \/ StartImportError \/ StartConnectFail \/ StartRun
    \/ RunBlank \/ RunInvalid \/ RunNonObject
    \/ RunOpen \/ RunClose \/ RunSend \/ RunRead \/ RunList \/ RunDetect \/ RunBadge
    \/ RunPing \/ RunUnknown
    \/ StandaloneLine
    \/ EndOfInput \/ UncaughtExit \/ MainExcept
    \/ UserClosesSession

Spec == Init /\ [][Next]_vars

\* The input is finite: the end of input comes once the loop keeps waiting in
\* readline().  An exception that left the loop ends the process.
Fairness ==
    /\ WF_vars(EndOfInput)
    /\ WF_vars(UncaughtExit \/ MainExcept)

SpecLive == Init /\ [][Next]_vars /\ Fairness

-----------------------------------------------------------------------------
(* run() step by step.  The loop and the handler it awaits are one          *)
(* coroutine: every `await` (readline, each driver call) is a point where  *)
(* the event loop may run something else, so each is a step of its own.    *)

MaxLines == 3

\* the requests of the step-by-step loop
StepCmds ==
    {("action" :> "open"), ("action" :> "open") @@ ("cwd" :> "/w") @@ ("badge" :> "B"),
     ("action" :> "close") @@ ("terminalId" :> "s1"),
     ("action" :> "send") @@ ("terminalId" :> "s1") @@ ("command" :> "ls"),
     ("action" :> "badge") @@ ("terminalId" :> "s2") @@ ("text" :> "B"),
     ("action" :> "list"), ("action" :> "ping"), ("action" :> "bogus")}

\* what handle_command(cmd) can do on registry reg with driver sessions lv, for
\* every outcome of the driver calls it makes
HandlerRuns(cmd, reg, lv) ==
    LET tid == Get(cmd, "terminalId", "")
        h0s == CASE Route(cmd) = "open" ->
                      {_open(cmd, reg, lv, TRUE, failAt, newId) :
                          newId \in SessionIds \ (lv \cup Keys(reg)),
                          failAt \in 0..OpenCallCount(cmd, TRUE)}
                 [] Route(cmd) = "close" ->
                      {_close(cmd, reg, lv, o) : o \in CallOutcomes(tid, lv)}
                 [] Route(cmd) = "send" ->
                      {_send(cmd, reg, lv, o) : o \in CallOutcomes(tid, lv)}
                 [] Route(cmd) = "badge" ->
                      {_badge(cmd, reg, lv, o) : o \in CallOutcomes(tid, lv)}
                 [] Route(cmd) = "list" ->
                      {_list(cmd, reg, lv, [sid \in Keys(reg) |-> <<o, "">>]) : o \in {"ok", "rpc"}}
                 [] Route(cmd) = "ping" -> {_ping(cmd, reg, lv)}
                 [] OTHER -> {_unknown(cmd, reg, lv)}
    IN {handle_command(cmd, h0) : h0 \in h0s}

\* the steps of one loop iteration after readline() returned the request, in
\* order: the registry lookup, one step per awaited driver call, the registry
\* write, and the print of the response
Plan(cmd, reg, h) ==
    (IF Route(cmd) \in {"close", "send", "read", "list", "detect", "badge"} THEN <<"lookup">> ELSE <<>>)
    \o [i \in 1..Len(h.calls) |-> "call"]
    \o (IF h.sessions # reg THEN <<"update">> ELSE <<>>)
    \o <<"print">>

Event(k, ev) == [k |-> k, ev |-> ev]

InitSteps ==
    /\ pc = "running" /\ mode = "iterm2"
    /\ sessions = <<>> /\ live = {} /\ issued = <<>> /\ last = <<>>
    /\ TextOff
    /\ lineno = 0 /\ running = <<>> /\ events = <<>>

\* mutant: each request is handed to a task of its own and the loop reads on
AtReadline_Spawned == TRUE

\* the loop is at `line = await reader.readline()`: the previous iteration has
\* run to its `continue` or its print
AtReadline == DOMAIN running = {}

\* readline() returns a line; a blank line and a line that is no JSON end the
\* iteration at once, a request starts its handler
StepReadLine ==
    /\ pc = "running" /\ AtReadline /\ lineno < MaxLines
    /\ lineno' = lineno + 1
    /\ \/ /\ events' = Append(events, Event(lineno + 1, "blank"))
          /\ running' = running
       \/ /\ events' = events \o <<Event(lineno + 1, "read"), Event(lineno + 1, "print")>>
          /\ running' = running
       \/ \E cmd \in StepCmds : \E h \in HandlerRuns(cmd, sessions, live) :
             /\ events' = Append(events, Event(lineno + 1, "read"))
             /\ running' = running @@
                   ((lineno + 1) :> [todo |-> Plan(cmd, sessions, h),
                                     sessions |-> h.sessions, live |-> h.live])
    /\ UNCHANGED <<pc, sessions, live, issued, last, mode, textVars>>

\* a handler in flight runs to its next await or to its end
StepHandler ==
    /\ pc = "running"
    /\ \E k \in DOMAIN running :
          LET r == running[k]
              ev == Head(r.todo)
              rest == Tail(r.todo)
          IN /\ events' = Append(events, Event(k, ev))
             /\ sessions' = IF ev = "update" THEN r.sessions ELSE sessions
             /\ live' = IF ev = "call" /\ (rest = <<>> \/ Head(rest) # "call")
                        THEN r.live ELSE live
             /\ running' = IF rest = <<>>
                           THEN [j \in DOMAIN running \ {k} |-> running[j]]
                           ELSE [running EXCEPT ![k].todo = rest]
    /\ UNCHANGED <<pc, lineno, issued, last, mode, textVars>>

\* readline() returns b'': break
StepEndOfInput ==
    /\ pc = "running" /\ AtReadline
    /\ pc' = "terminated"
    /\ UNCHANGED <<sessions, live, issued, last, mode, textVars, stepVars>>

NextSteps == StepReadLine \/ StepHandler \/ StepEndOfInput

SpecSteps == InitSteps /\ [][NextSteps]_vars

-----------------------------------------------------------------------------
(* Properties *)

\* the last step handled a line holding a JSON object in the protocol loop of run()
IsRequest ==
    /\ mode = "iterm2" /\ last.step = "line"
    /\ last.line.kind = "json" /\ last.line.value.type = "object"

LastCmd == CmdOf(last.line)
LastAction == Route(LastCmd)
LastId == Get(LastCmd, "id", "")
LastTerminalId == Get(LastCmd, "terminalId", "")
\* the response written for the last line
Resp == last.out[1]
SessionActions == {"close", "send", "read", "detect", "badge"}
FailedCalls == {i \in 1..Len(last.calls) : last.calls[i].outcome # "ok"}
EndsWith(s, suffix) ==
    Len(suffix) <= Len(s) /\ SubSeq(s, Len(s) - Len(suffix) + 1, Len(s)) = suffix

\* C1: in run(), the readiness line is written first, then every non-blank input
\* line is answered by exactly one line, which carries the id of that line's
\* request; a blank line and the end of input write nothing.
C1_OneResponsePerLine ==
    mode = "iterm2" =>
        /\ (last.step = "start" /\ pc = "running" =>
                last.out = <<[ok |-> TRUE, ready |-> TRUE]>>)
        /\ (last.step = "line" /\ IsBlank(last.line) => last.out = <<>>)
        /\ (last.step = "line" /\ ~IsBlank(last.line) =>
                /\ Len(last.out) = 1
                /\ pc = "running"
                /\ IsRequest => Resp.id = LastId)
        /\ (last.step \in {"eof", "exit"} => last.out = <<>>)

\* C2: every response written for an input line, in run() and in the standalone
\* loop, has an id field: the request's id, or "" when the request has none or the
\* line is not valid JSON.
C2_IdEchoed ==
    last.step = "line" =>
        \A i \in 1..Len(last.out) :
            /\ "id" \in DOMAIN last.out[i]
            /\ last.out[i].id = IF last.line.kind = "json" /\ last.line.value.type = "object"
                                THEN Get(CmdOf(last.line), "id", "")
                                ELSE ""

C4_SendAlwaysSucceeds ==
    IsRequest /\ LastTerminalId \in SessionIds /\ Len(last.out) = 1 =>
        /\ (LastAction = "send" /\ last.told[LastTerminalId] = "open" => Resp.ok = TRUE)
        /\ (LastAction = "close" /\ last.told[LastTerminalId] = "open" => Resp.ok = TRUE)
        /\ (LastAction \in SessionActions /\ last.told[LastTerminalId] = "closed" =>
                Resp.ok = FALSE /\ pc \in {"running", "terminated"})

\* C4 (amended): once open has returned t, send to t succeeds whenever the
\* driver's send call does, and close of t returns ok:true; once close of t has
\* returned ok:true, close, send, read, detect and badge naming t answer ok:false
\* and the loop goes on, until an open returns t again.
C4_Lifecycle ==
    IsRequest /\ LastTerminalId \in SessionIds =>
        /\ Len(last.out) = 1
        /\ (LastAction = "send" /\ last.told[LastTerminalId] = "open" =>
                /\ Len(last.calls) = 1
                /\ last.calls[1].outcome = "ok" => Resp.ok = TRUE)
        /\ (LastAction = "close" /\ last.told[LastTerminalId] = "open" => Resp.ok = TRUE)
        /\ (LastAction \in SessionActions /\ last.told[LastTerminalId] = "closed" =>
                Resp.ok = FALSE /\ pc \in {"running", "terminated"})

\* C4 witness: a send names a session whose close was answered ok:true, and is refused
C4_Witness ==
    /\ IsRequest /\ LastAction = "send"
    /\ LastTerminalId \in SessionIds /\ last.told[LastTerminalId] = "closed"
    /\ Resp.ok = FALSE

CreateOps == {"Window.async_create", "async_create_tab", "async_split_pane"}

\* C5: an open whose driver calls all succeed creates exactly one session,
\* registers it under the driver's identifier and answers ok:true with that
\* identifier and the requested title (the identifier when no title was given),
\* for every target and with or without a current window.
C5_OpenAcquiresSession ==
    IsRequest /\ LastAction = "open" /\ FailedCalls = {} =>
        /\ Len(last.out) = 1
        /\ Resp.ok = TRUE
        /\ Cardinality({i \in 1..Len(last.calls) : last.calls[i].op \in CreateOps}) = 1
        /\ \E i \in 1..Len(last.calls) :
              last.calls[i].op \in CreateOps /\ last.calls[i].sid = Resp.terminalId
        /\ Resp.terminalId \in Keys(sessions)
        /\ Resp.title = IF Get(LastCmd, "title", "") # "" THEN Get(LastCmd, "title", "")
                        ELSE Resp.terminalId

\* the response C6 expects for a request with a failed driver call
FailureResponse ==
    SetId([ok |-> FALSE,
           error |-> FailureMsg(last.calls[CHOOSE i \in FailedCalls : TRUE].outcome)], LastId)

LastN(seq, n) == SubSeq(seq, IF Len(seq) > n THEN Len(seq) - n + 1 ELSE 1, Len(seq))

\* C9: a successful read returns the last `lines` lines (default 50) of the
\* session's buffer joined with newlines, ANSI-stripped unless raw is true.
C9_ReadLastLines ==
    IsRequest /\ LastAction = "read" /\ Len(last.out) = 1 /\ Resp.ok = TRUE =>
        LET tail == Join(LastN(last.screen, Get(LastCmd, "lines", 50)))
        IN Resp.output = IF Get(LastCmd, "raw", FALSE) THEN tail ELSE strip_ansi(tail)

\* C10: list answers ok:true with one entry per registry entry, in the registry's
\* order; an entry is alive exactly when its name fetch succeeded; the registry
\* is left as it was.
C10_ListReportsAll ==
    IsRequest /\ LastAction = "list" =>
        /\ Len(last.out) = 1
        /\ Resp.ok = TRUE
        /\ Len(Resp.sessions) = Len(last.before)
        /\ Len(last.calls) = Len(last.before)
        /\ \A i \in 1..Len(last.before) :
              /\ Resp.sessions[i].terminalId = last.before[i]
              /\ last.calls[i].sid = last.before[i]
              /\ Resp.sessions[i].alive = (last.calls[i].outcome = "ok")
        /\ sessions = last.before

\* C10 witness: two sessions are listed, the first one dead and the second alive
C10_Witness ==
    /\ IsRequest /\ LastAction = "list"
    /\ Len(Resp.sessions) = 2
    /\ ~Resp.sessions[1].alive /\ Resp.sessions[2].alive

\* sub occurs in s
Occurs(s, sub) == \E i \in 1..(Len(s) - Len(sub) + 1) : SubSeq(s, i, i + Len(sub) - 1) = sub

\* what each state's pattern looks for, read off the regular expressions
Triggers(name, s) ==
    CASE name = "error" ->
            \E w \in {"Error:", "FATAL", "panic", "Traceback", "ENOENT", "EACCES"} : Occurs(s, w)
      [] name = "checkpoint" ->
            \/ Occurs(s, "CHECKPOINT SAVED")
            \/ Occurs(s, "Context pressure: 100%")
            \/ \E a \in {"8", "9"}, b \in Digits : Occurs(s, "Context pressure: " \o a \o b \o "%")
      [] name = "plan_approval" ->
            Occurs(s, "Waiting for plan approval") \/ Occurs(s, "Approve this plan?")
      [] name = "complete" ->
            Occurs(s, "All plan steps complete") \/ Occurs(s, "Task complete")
      [] name = "waiting_input" ->
            \E i \in 1..Len(s), j \in 1..Len(s) :
                /\ i + 1 < j
                /\ Ch(s, i) = "?"
                /\ \A k \in (i + 1)..(j - 1) : Ch(s, k) \in Whitespace
                /\ \E w \in {"yes", "no", "approve", "reject"} :
                      /\ j + Len(w) - 1 <= Len(s)
                      /\ LowerStr(SubSeq(s, j, j + Len(w) - 1)) = w
      [] name = "working" ->
            \/ \E i \in 1..Len(s) : Ch(s, i) \in Spinner
            \/ Occurs(s, "Running") \/ Occurs(s, "Executing")
      [] name = "idle" ->
            \E i \in 1..Len(s), j \in 1..Len(s) :
                /\ i <= j
                /\ i = 1 \/ Ch(s, i - 1) = "\n"
                /\ Ch(s, i) = ">"
                /\ \A k \in (i + 1)..j : Ch(s, k) \in Whitespace
                /\ j = Len(s) \/ Ch(s, j + 1) = "\n"

\* C7: detect_state reports the first state, in the order error, checkpoint,
\* plan_approval, complete, waiting_input, working, idle, whose pattern matches
\* the ANSI-stripped text, with a matched substring of that text; it reports
\* unknown with no match exactly when no pattern matches (so for an empty or
\* absent text); a text with an error trigger and an idle trigger is error.
C7_FirstMatchingState ==
    applied = 1 =>
        LET clean == strip_ansi(text)
            Order == <<"error", "checkpoint", "plan_approval", "complete",
                       "waiting_input", "working", "idle">>
            M == {k \in 1..7 : Triggers(Order[k], clean)}
        IN /\ res1.state \in {Order[k] : k \in 1..7} \cup {"unknown"}
           /\ (M = {} <=> res1.state = "unknown")
           /\ (res1.state = "unknown" <=> res1.match = None)
           /\ (M # {} =>
                  /\ res1.state = Order[MinOf(M)]
                  /\ Occurs(clean, res1.match)
                  /\ Triggers(res1.state, res1.match))
           /\ (text \in {None, ""} => res1.state = "unknown")
           /\ (Triggers("error", clean) /\ Triggers("idle", clean) => res1.state = "error")

\* C7 witness: a text with an error trigger and a bare prompt line is classified error
C7_Witness ==
    /\ applied = 1
    /\ Triggers("error", strip_ansi(text)) /\ Triggers("idle", strip_ansi(text))
    /\ res1 = [state |-> "error", match |-> "Error:"]

\* C8: strip_ansi(strip_ansi(x)) = strip_ansi(x) for every text x, and strip_ansi
\* of an empty or absent text is the empty string.
C8_StripIdempotent ==
    /\ (applied = 2 => res2 = res1)
    /\ (applied >= 1 /\ text \in {None, ""} => res1 = "")

\* C11: close of a registered session that is already gone (the driver's close
\* raises the already-closed failure) answers ok:true with no error field and
\* removes the entry from the registry.
C11_CloseAlreadyClosed ==
    IsRequest /\ LastAction = "close" /\ LastTerminalId \in Keys(last.before)
    /\ Len(last.calls) = 1 /\ last.calls[1].outcome = "closed" =>
        /\ Len(last.out) = 1
        /\ Resp.ok = TRUE
        /\ "error" \notin DOMAIN Resp
        /\ LastTerminalId \notin Keys(sessions)
        /\ sessions = DictDel(last.before, LastTerminalId)
        /\ pc = "running"

\* C11 witness: the user closed the session, then close is asked for it and succeeds
C11_Witness ==
    /\ IsRequest /\ LastAction = "close" /\ LastTerminalId \in Keys(last.before)
    /\ last.calls = <<Call("async_close", LastTerminalId, "", "closed")>>
    /\ Resp.ok = TRUE /\ LastTerminalId \notin Keys(sessions)

\* C12: every line written to stdout has a boolean ok; with ok:false it carries
\* an error string, with ok:true it carries no error field.
C12_OkErrorShape ==
    \A i \in 1..Len(last.out) :
        LET r == last.out[i]
        IN /\ "ok" \in DOMAIN r
           /\ r.ok \in BOOLEAN
           /\ (r.ok = FALSE => "error" \in DOMAIN r /\ r.error \in STRING)
           /\ (r.ok = TRUE => "error" \notin DOMAIN r)

\* C12 witness: a request naming a missing session is refused with an error string
C12_Witness ==
    /\ IsRequest /\ LastAction \in SessionActions
    /\ Len(last.out) = 1 /\ Resp.ok = FALSE
    /\ "error" \in DOMAIN Resp /\ Resp.error = "Session not found: " \o LastTerminalId

\* C13: in the standalone loop every non-blank line is answered by one line and
\* the loop goes on until the end of input: ping by {ok:true, pong:true},
\* detect_text by ok:true with the classification of its text ("Error: FATAL
\* crash" gives state error, match "Error:"), every other action by ok:false
\* with an explanation.
C13_StandaloneServes ==
    mode = "standalone" =>
        /\ pc \in {"start", "standalone", "terminated"}
        /\ last.step = "line" /\ ~IsBlank(last.line) => Len(last.out) = 1
        /\ last.step = "line" /\ last.line.kind = "json"
           /\ last.line.value.type = "object" /\ Len(last.out) = 1 =>
              LET cmd == CmdOf(last.line)
                  action == Get(cmd, "action", "")
                  r == last.out[1]
              IN /\ action = "ping" => r.ok = TRUE /\ r.pong = TRUE
                 /\ action = "detect_text" =>
                       /\ r.ok = TRUE
                       /\ r.state = detect_state(Get(cmd, "text", "")).state
                       /\ r.match = detect_state(Get(cmd, "text", "")).match
                       /\ Get(cmd, "text", "") = "Error: FATAL crash" =>
                             r.state = "error" /\ r.match = "Error:"
                 /\ action \notin {"ping", "detect_text"} =>
                       r.ok = FALSE /\ "error" \in DOMAIN r

\* C14: in run(), handling a line never ends the loop: after every line the
\* process is still Running, whatever the line held.
C14_LineNeverEndsLoop ==
    mode = "iterm2" =>
        /\ last.step = "line" => pc = "running"
        /\ pc \in {"raised", "exited"} => last.step = "start"
        /\ pc = "terminated" => last.step = "eof"

\* the identifiers an open response has handed out and no ok:true close has taken back
Addressable == {sid \in SessionIds : issued[sid] = "open"}

\* C15: the registry's keys are exactly the identifiers returned by ok:true open
\* responses and not closed by a later ok:true close; a step changes the registry
\* only by a successful open appending its identifier or by a successful close
\* deleting the one it names.
C15_RegistryTracksResponses ==
    mode = "iterm2" =>
        /\ Keys(sessions) = Addressable
        /\ Len(sessions) = Cardinality(Keys(sessions))
        /\ sessions # last.before =>
              /\ IsRequest /\ Len(last.out) = 1 /\ Resp.ok = TRUE
              /\ \/ /\ LastAction = "open"
                    /\ Resp.terminalId \notin Keys(last.before)
                    /\ sessions = Append(last.before, Resp.terminalId)
                 \/ /\ LastAction = "close"
                    /\ LastTerminalId \in Keys(last.before)
                    /\ sessions = DictDel(last.before, LastTerminalId)

\* C15 witness: with two sessions registered, a close removes the one it names
C15_Witness ==
    /\ IsRequest /\ LastAction = "close" /\ Len(last.out) = 1 /\ Resp.ok = TRUE
    /\ Len(last.before) = 2 /\ Len(sessions) = 1
    /\ Keys(sessions) = Addressable

\* C16: a request answered ok:false because a driver call failed leaves the
\* registry as it was before the request.
C16_FailureKeepsRegistry ==
    IsRequest /\ FailedCalls # {} /\ Len(last.out) = 1 /\ Resp.ok = FALSE =>
        sessions = last.before

\* C16 witness: open's badge call fails after the session was created; nothing is registered
C16_Witness ==
    /\ IsRequest /\ LastAction = "open" /\ Len(last.out) = 1 /\ Resp.ok = FALSE
    /\ \E i \in FailedCalls : last.calls[i].op = "async_set_variable"
    /\ \E i \in 1..Len(last.calls) : last.calls[i].op \in CreateOps /\ last.calls[i].outcome = "ok"
    /\ sessions = last.before

\* C17: a failed driver call is answered ok:true only by close and only for the
\* already-closed failure; otherwise the answer is ok:false with the failure's
\* message, and the failed call is the last call the handler made (no retry).
C17_OnlyAlreadyClosedSwallowed ==
    IsRequest /\ FailedCalls # {} /\ Len(last.out) = 1 =>
        /\ Resp.ok = TRUE =>
              LastAction = "close" /\ \A i \in FailedCalls : last.calls[i].outcome = "closed"
        /\ Resp.ok = FALSE => Resp = FailureResponse
        /\ LastAction # "list" => FailedCalls = {Len(last.calls)}

\* C20: every session the driver created for an open request and that still
\* exists is a key of the registry and was returned to the caller as a terminalId.
C20_NoOrphanSession ==
    mode = "iterm2" => live \subseteq (Keys(sessions) \cap Addressable)

\* C19: with a finite input, once run() is in its loop it eventually reaches
\* Terminated through the end of input, and the end of input writes nothing.
C19_EventuallyTerminated ==
    [](mode = "iterm2" /\ pc = "running" =>
          <>(pc = "terminated" /\ last.step = "eof" /\ last.out = <<>>))

\* the positions in events of the steps of line k
EventsOf(k) == {i \in 1..Len(events) : events[i].k = k}

\* C18: at most one handler is in flight; the steps of line k (its registry
\* accesses, its driver calls, its print) all come before line k+1 is read, and
\* line k+1 is read only after the response to line k was printed.
C18_OneHandlerAtATime ==
    /\ Cardinality(DOMAIN running) <= 1
    /\ \A i, j \in 1..Len(events) : i < j => events[i].k <= events[j].k
    /\ \A i \in 1..Len(events) :
          events[i].ev = "read" /\ events[i].k > 1 =>
             \E j \in 1..(i - 1) :
                /\ events[j].k = events[i].k - 1
                /\ events[j].ev \in {"print", "blank"}
                /\ \A m \in EventsOf(events[j].k) : m <= j

\* C18 witness: the handler of line 2 has made a driver call, after the handler
\* of line 1 made several driver calls and its response was printed
C18_Witness ==
    /\ Cardinality({i \in EventsOf(1) : events[i].ev = "call"}) >= 2
    /\ \E i \in EventsOf(1) : events[i].ev = "print"
    /\ \E i \in EventsOf(2) : events[i].ev = "call"
    /\ DOMAIN running = {2}

====
